---- MODULE Spec2Model ----
(***************************************************************************)
(* Model of kumo's ImageDownloader (src/kumo/engine/downloader.py): the    *)
(* semaphore-limited, retrying download engine.  One call of download_task *)
(* or download_tasks is in progress at a time; the jobs of a call are the  *)
(* coroutines of download_task, which interleave at their await points     *)
(* (semaphore wait, pacing sleep, network and file I/O, retry sleep, hook).*)
(* Code between two await points runs atomically (one asyncio event loop). *)
(***************************************************************************)
EXTENDS Integers, Sequences, FiniteSets, TLC

\* ---------------------------------------------------------------- bounds
\* Largest batch handed to one download_tasks call.
NumTasks == 3
\* Calls made on one engine.
MaxCalls == 2
\* Jobs handed to one engine over all its calls.
MaxJobs == 3
\* Largest max_concurrent / max_retries an engine is constructed with.
MaxConcurrent == 2
MaxRetries == 2

\* The engine of the concrete three-job scenario.
ScenarioEngine == [max_concurrent |-> 2, max_retries |-> 3]

Jobs == 1..NumTasks

\* delay_range values: None (falsy, written as the empty tuple) and the
\* default range (1.0, 3.0).
DelayRanges == {<<>>, <<1, 3>>}

\* The same, and ranges whose max is not positive.
AllDelayRanges == DelayRanges \cup {<<0, 0>>, <<-1, 0>>}

\* What one attempt can end in: status 200 with the body written, status 429,
\* status 403, another status, an exception raised by the request, the read
\* or the write.  The scripted executor also labels an exception "fatal" (an
\* unrecoverable condition); the code has one except clause for both.
Outcomes == {"ok", "429", "403", "other", "exc"}

\* The scripted executor of the scenario: job 1 succeeds, job 2 is rate
\* limited once and then succeeds, job 3 meets an unrecoverable error.
ScenarioScript ==
    <<  <<"ok">>,
        <<"429", "ok">>,
        <<"fatal">>  >>

\* The scripted answer to attempt k (0-based) of job j: the script's entry,
\* its last entry once the script is used up, "ok" for a job without script.
Scripted(j, k) ==
    IF j \in DOMAIN ScenarioScript
    THEN LET sc == ScenarioScript[j]
         IN  IF k + 1 <= Len(sc) THEN sc[k + 1] ELSE sc[Len(sc)]
    ELSE "ok"

\* Header names the engine and the jobs may set.
HeaderNames == {"User-Agent", "Referer", "Origin"}

\* A string is a sequence of characters.
Letters == {"h", "s", "u", "e", "c", "x"}
Digits == {"8"}

\* The header dictionaries with the given value under some of the names.
HeaderMaps(v) == UNION {[K -> {v}] : K \in SUBSET HeaderNames}

DefaultHeaderMaps == HeaderMaps(<<"d">>)
TaskHeaderMaps == HeaderMaps(<<"t">>)

\* The parts absolute URLs are written from: scheme, userinfo, host, port
\* and path, the optional ones empty when absent.
RefParts ==
    [scheme : {<<"h", "s">>},
     user : {<<>>, <<"u">>},
     host : {<<"e">>, <<"e", ".", "c">>},
     port : {<<>>, <<"8">>},
     path : {<<>>, <<"/", "x">>}]

\* The URL written from its parts: scheme://[user@]host[:port]path
FormatUrl(c) ==
    c.scheme \o <<":", "/", "/">>
    \o (IF c.user = <<>> THEN <<>> ELSE c.user \o <<"@">>)
    \o c.host
    \o (IF c.port = <<>> THEN <<>> ELSE <<":">> \o c.port)
    \o c.path

\* Values of task.referer: "" (the default) or an absolute URL.
Referers == {<<>>} \cup {FormatUrl(c) : c \in RefParts}

\* Connectors the package may hold: a name and the keyword of its site.
Connectors ==
    [name : {<<"a">>, <<"A">>, <<"b">>, <<"B">>},
     keyword : {<<>>, <<"a">>, <<"b">>}]

\* At most this many connectors are loaded.
MaxConnectors == 2

\* The connectors of the package in the order they are loaded.
ConnectorLists ==
    UNION {[1..n -> Connectors] : n \in 0..MaxConnectors}

\* An optional argument: <<>> is None, <<v>> is the value v.
Optional(S) == {<<>>} \cup {<<v>> : v \in S}

\* Names and URLs get_connector is called with.
LookupNames == {<<>>, <<"a">>, <<"A">>, <<"b">>, <<"c">>}
LookupUrls == {<<>>, <<"x", "a">>, <<"b", "x">>, <<"x">>}

\* At most this many calls are made on the StealthBrowser.
MaxBrowserCalls == 4

\* timeout: int = 60
DefaultTimeout == 60

\* Timeouts an engine is built with, and set_timeout is called with.
Timeouts == {30, DefaultTimeout}

VARIABLES
    max_concurrent,     \* self.max_concurrent
    max_retries,        \* self.max_retries
    delay_range,        \* self.delay_range
    scripted,           \* TRUE: the environment follows ScenarioScript
    sem_value,          \* self._semaphore._value
    waiters,            \* self._semaphore._waiters (FIFO)
    total_downloaded,   \* self.__total_downloaded
    total_failed,       \* self.__total_failed
    call,               \* the call in progress: "none", "task", "tasks"
    ntasks,             \* len(tasks) of the call in progress (or the last one)
    ret,                \* what the last call returned: <<downloaded, failed>>,
                        \* <<"True">>, <<"False">>, <<"raised">>; <<>> before
    pc,                 \* per job: where its download_task coroutine stands
    attempt,            \* per job: the loop variable `attempt`
    errors,             \* per job: the local list `errors`
    sent,               \* history: requests sent for the job
    nSuccess,           \* history: invocations of the job's on_success
    nError,             \* history: invocations of the job's on_error
    outcomes,           \* history: the outcomes of the job's attempts so far
    completed,          \* history: jobs that reached a terminal state
    succeeded,          \* history: jobs whose download_task returned True
    calls,              \* history: the calls made, <<kind, size>> each
    default_headers,    \* self.default_headers
    task,               \* the task last handed to _build_headers
    built,              \* what _build_headers returned: <<headers>>; <<>> before
    timeout,            \* self._timeout
    set_timeout_call,   \* the last set_timeout call: <<t, how it ended>>
    connectors,         \* ConnectorManager._connectors, in insertion order:
                        \* <<key, connector>> pairs
    got,                \* the last get_connector call: <<arguments, result>>
    playwright,         \* StealthBrowser.playwright: "None" or "set"
    browser,            \* StealthBrowser.browser
    context,            \* StealthBrowser.context
    page,               \* StealthBrowser.page
    bcalls              \* history: the calls made on the StealthBrowser,
                        \* <<method, how it ended>> each

vars == <<max_concurrent, max_retries, delay_range, scripted, sem_value,
          waiters, total_downloaded, total_failed, call, ntasks, ret, pc,
          attempt, errors, sent, nSuccess, nError, outcomes, completed,
          succeeded, calls, default_headers, task, built, timeout,
          set_timeout_call, connectors, got, playwright, browser, context,
          page, bcalls>>

config == <<max_concurrent, max_retries, delay_range, scripted>>
history == <<sent, nSuccess, nError, outcomes, completed, succeeded, calls>>
builder == <<default_headers, task, built>>
setting == <<timeout, set_timeout_call>>
manager == <<connectors, got>>
stealth == <<playwright, browser, context, page, bcalls>>
engine == <<sem_value, waiters, total_downloaded, total_failed, call, ntasks,
            ret, pc, attempt, errors, history>>

\* ------------------------------------------------------------- helpers

\* Positions of a coroutine inside `async with self._semaphore`.
Inside == {"woken", "pace", "get", "long", "medium", "short", "hookS", "hookE"}
\* Positions of a finished coroutine: returned True, returned False, raised.
Terminal == {"true", "false", "raised"}

Holders == {j \in Jobs : pc[j] \in Inside}

CurrentJobs == 1..ntasks

\* stats property
stats ==
    [downloaded |-> total_downloaded,
     failed |-> total_failed,
     total |-> total_downloaded + total_failed]

\* Mutant of Locked: the limiter refuses a slot one acquisition too late.
LockedOffByOne == sem_value < 0 \/ waiters # <<>>

\* asyncio.Semaphore.locked(): no slot, or somebody is queued before us.
Locked == sem_value = 0 \/ waiters # <<>>

\* Mutant of PacingEnabled: random_delay sleeps whatever max_seconds is.
PacingEnabledTruthy == Len(delay_range) > 0

\* `if self.delay_range:` and random_delay's `if max_seconds <= 0.0: return`
PacingEnabled == Len(delay_range) > 0 /\ delay_range[2] > 0

\* Mutant of RetriesLeft: the except branch gives up one attempt early.
RetriesLeftEarly(k) == k < max_retries - 2

\* `if attempt < self.max_retries - 1` of the except branch
RetriesLeft(k) == k < max_retries - 1

\* Mutant of HasNextIteration: the loop runs one iteration too many.
HasNextIterationOneMore(k) == k + 1 <= max_retries

\* range(self.max_retries): is there an iteration after iteration k
HasNextIteration(k) == k + 1 < max_retries

\* results.count(True)
DownloadedCount == Cardinality({j \in CurrentJobs : pc[j] = "true"})

\* Mutant of FailedCount: the operands of the subtraction are swapped.
FailedCountSwapped(n, d) == d - n

\* Mutant of FailedCount: the failures are counted one too many.
FailedCountOffByOne(n, d) == n - d + 1

\* len(tasks) - downloaded_count
FailedCount(n, d) == n - d

\* Mutant of GatherDone: gather without return_exceptions=True hands the first
\* exception of a job to download_tasks while the other jobs still run.
GatherDoneFirstException ==
    \/ \A j \in CurrentJobs : pc[j] \in Terminal
    \/ \E j \in CurrentJobs : pc[j] = "raised"

\* asyncio.gather(*download_coroutines, return_exceptions=True) is done when
\* every coroutine has returned or raised.
GatherDone == \A j \in CurrentJobs : pc[j] \in Terminal

\* What the executor can answer to attempt k (0-based) of job j.
Executor(j, k) == IF scripted THEN {Scripted(j, k)} ELSE Outcomes

\* How a hook or mkdir can end.
Behaviours == IF scripted THEN {"returns"} ELSE {"returns", "raises"}

RECURSIVE SumSizes(_)
SumSizes(cs) == IF cs = <<>> THEN 0 ELSE Head(cs)[2] + SumSizes(Tail(cs))

\* Jobs handed to the engine so far.
Submitted == SumSizes(calls)

\* TaskDownloadError(url, errors).attempts
Attempts(errs) == Len(errs)

\* ------------------------------------------------------ _build_headers

\* str.find for a set of characters: the first position (from 1) of s that
\* holds one of them, 0 when there is none.
Find(s, S) ==
    IF \E i \in 1..Len(s) : s[i] \in S
    THEN CHOOSE i \in 1..Len(s) :
             s[i] \in S /\ \A k \in 1..(i - 1) : s[k] \notin S
    ELSE 0

\* urlparse(url), its scheme and netloc: the scheme is what precedes the first
\* ":" when that is a letter followed by scheme characters; the netloc is what
\* follows a leading "//" of the rest, up to the first "/", "?" or "#".
UrlParse(url) ==
    LET i == Find(url, {":"})
        hasScheme ==
            /\ i > 1
            /\ url[1] \in Letters
            /\ \A k \in 1..(i - 1) : url[k] \in Letters \cup Digits \cup {"+", "-", "."}
        rest == IF hasScheme THEN SubSeq(url, i + 1, Len(url)) ELSE url
        hasNetloc == Len(rest) >= 2 /\ rest[1] = "/" /\ rest[2] = "/"
        after == SubSeq(rest, 3, Len(rest))
        delim == Find(after, {"/", "?", "#"})
    IN  [scheme |-> IF hasScheme THEN SubSeq(url, 1, i - 1) ELSE <<>>,
         netloc |-> IF ~hasNetloc THEN <<>>
                    ELSE IF delim = 0 THEN after
                    ELSE SubSeq(after, 1, delim - 1)]

\* dict.update: the entries of b replace and extend those of a.
Update(a, b) ==
    [k \in DOMAIN a \cup DOMAIN b |-> IF k \in DOMAIN b THEN b[k] ELSE a[k]]

\* f"{parsed.scheme}://{parsed.netloc}"
OriginOf(parsed) == parsed.scheme \o <<":", "/", "/">> \o parsed.netloc

\* _build_headers(task) of an engine with default headers dh
build_headers(dh, t) ==
    LET headers == Update(dh, t.headers)
    IN  IF t.referer # <<>>
        THEN Update(headers,
                    [k \in {"Referer", "Origin"} |->
                        IF k = "Referer" THEN t.referer
                        ELSE OriginOf(UrlParse(t.referer))])
        ELSE headers

\* ------------------------------------------------------ ConnectorManager

\* Mutant of LowerOf: the case of a character is kept.
LowerOfIdentity(ch) == ch

\* str.lower of one character
LowerOf(ch) ==
    CASE ch = "A" -> "a"
      [] ch = "B" -> "b"
      [] OTHER -> ch

\* str.lower
Lower(str) == [i \in 1..Len(str) |-> LowerOf(str[i])]

\* self._connectors[connector.name.lower()] = connector: a key already there
\* keeps its place and takes the new connector.
Register(reg, c) ==
    LET key == Lower(c.name)
    IN  IF \E i \in 1..Len(reg) : reg[i][1] = key
        THEN [i \in 1..Len(reg) |->
                 IF reg[i][1] = key THEN <<key, c>> ELSE reg[i]]
        ELSE Append(reg, <<key, c>>)

RECURSIVE LoadConnectors(_)
\* _load_connectors, for the connectors cs found in the package
LoadConnectors(cs) ==
    IF cs = <<>> THEN <<>>
    ELSE Register(LoadConnectors(SubSeq(cs, 1, Len(cs) - 1)), cs[Len(cs)])

\* `keyword in url`
Contains(keyword, url) ==
    \E i \in 0..(Len(url) - Len(keyword)) :
        SubSeq(url, i + 1, i + Len(keyword)) = keyword

\* BaseConnector.can_handle
can_handle(c, url) == Contains(c.keyword, url)

Raised(exc) == [kind |-> "raise", exc |-> exc, value |-> <<>>]
Returned(v) == [kind |-> "return", exc |-> "", value |-> v]

\* get_connector(name=..., url=..., raise_error=...) on the registry reg;
\* a returned connector is <<c>>, a returned None is <<>>.
get_connector(reg, name, url, raise_error) ==
    IF (name = <<>>) = (url = <<>>)
    THEN Raised("ValueError")
    ELSE IF name # <<>>
    THEN LET key == Lower(name[1])
         IN  IF \E i \in 1..Len(reg) : reg[i][1] = key
             THEN Returned(<<reg[CHOOSE i \in 1..Len(reg) : reg[i][1] = key][2]>>)
             ELSE Returned(<<>>)
    ELSE LET hits == {i \in 1..Len(reg) : can_handle(reg[i][2], url[1])}
         IN  IF hits # {}
             THEN Returned(<<reg[CHOOSE i \in hits : \A k \in hits : i <= k][2]>>)
             ELSE IF raise_error
             THEN Raised("ConnectorNotFoundError")
             ELSE Returned(<<>>)

\* ------------------------------------------------- steps of download_task

\* Mutant of Finish: the slot goes to the waiter that arrived last.
FinishWakesLast(j, p) ==
    /\ IF waiters = <<>>
       THEN /\ sem_value' = sem_value + 1
            /\ waiters' = waiters
            /\ pc' = [pc EXCEPT ![j] = p]
       ELSE /\ sem_value' = sem_value
            /\ waiters' = SubSeq(waiters, 1, Len(waiters) - 1)
            /\ pc' = [pc EXCEPT ![j] = p, ![waiters[Len(waiters)]] = "woken"]
    /\ attempt' = [attempt EXCEPT ![j] = 0]
    /\ errors' = [errors EXCEPT ![j] = <<>>]
    /\ sent' = [sent EXCEPT ![j] = 0]
    /\ nSuccess' = [nSuccess EXCEPT ![j] = 0]
    /\ nError' = [nError EXCEPT ![j] = 0]
    /\ outcomes' = [outcomes EXCEPT ![j] = <<>>]
    /\ completed' = completed + 1
    /\ succeeded' = IF p = "true" THEN succeeded + 1 ELSE succeeded

\* Mutant of Finish: a coroutine that raises keeps its slot.
FinishLeaks(j, p) ==
    /\ IF waiters = <<>>
       THEN /\ sem_value' = IF p = "raised" THEN sem_value ELSE sem_value + 1
            /\ waiters' = waiters
            /\ pc' = [pc EXCEPT ![j] = p]
       ELSE /\ sem_value' = sem_value
            /\ waiters' = IF p = "raised" THEN waiters ELSE Tail(waiters)
            /\ pc' = [pc EXCEPT ![j] = p,
                                ![Head(waiters)] = IF p = "raised" THEN "wait" ELSE "woken"]
    /\ attempt' = [attempt EXCEPT ![j] = 0]
    /\ errors' = [errors EXCEPT ![j] = <<>>]
    /\ sent' = [sent EXCEPT ![j] = 0]
    /\ nSuccess' = [nSuccess EXCEPT ![j] = 0]
    /\ nError' = [nError EXCEPT ![j] = 0]
    /\ outcomes' = [outcomes EXCEPT ![j] = <<>>]
    /\ completed' = completed + 1
    /\ succeeded' = IF p = "true" THEN succeeded + 1 ELSE succeeded

\* Mutant of Finish: a job that did not succeed passes its result on to the
\* waiter it wakes.
FinishFailsWaiter(j, p) ==
    /\ IF waiters = <<>>
       THEN /\ sem_value' = sem_value + 1
            /\ waiters' = waiters
            /\ pc' = [pc EXCEPT ![j] = p]
       ELSE /\ sem_value' = sem_value
            /\ waiters' = Tail(waiters)
            /\ pc' = [pc EXCEPT ![j] = p,
                                ![Head(waiters)] = IF p = "true" THEN "woken" ELSE p]
    /\ attempt' = [attempt EXCEPT ![j] = 0]
    /\ errors' = [errors EXCEPT ![j] = <<>>]
    /\ sent' = [sent EXCEPT ![j] = 0]
    /\ nSuccess' = [nSuccess EXCEPT ![j] = 0]
    /\ nError' = [nError EXCEPT ![j] = 0]
    /\ outcomes' = [outcomes EXCEPT ![j] = <<>>]
    /\ completed' = completed + 1
    /\ succeeded' = IF p = "true" THEN succeeded + 1 ELSE succeeded

\* Leaving `async with self._semaphore` (Semaphore.release): the slot goes to
\* the first waiter, who is woken, or back to the semaphore.  The coroutine
\* of job j is over with result p; its locals, and the history kept of it,
\* are gone.
Finish(j, p) ==
    /\ IF waiters = <<>>
       THEN /\ sem_value' = sem_value + 1
            /\ waiters' = waiters
            /\ pc' = [pc EXCEPT ![j] = p]
       ELSE /\ sem_value' = sem_value
            /\ waiters' = Tail(waiters)
            /\ pc' = [pc EXCEPT ![j] = p, ![Head(waiters)] = "woken"]
    /\ attempt' = [attempt EXCEPT ![j] = 0]
    /\ errors' = [errors EXCEPT ![j] = <<>>]
    /\ sent' = [sent EXCEPT ![j] = 0]
    /\ nSuccess' = [nSuccess EXCEPT ![j] = 0]
    /\ nError' = [nError EXCEPT ![j] = 0]
    /\ outcomes' = [outcomes EXCEPT ![j] = <<>>]
    /\ completed' = completed + 1
    /\ succeeded' = IF p = "true" THEN succeeded + 1 ELSE succeeded

\* Mutant of Iterate: the request is sent as the iteration starts and again
\* when the pacing delay is over.
IterateSendsEarly(j, k, errs) ==
    /\ attempt' = [attempt EXCEPT ![j] = k]
    /\ errors' = [errors EXCEPT ![j] = errs]
    /\ pc' = [pc EXCEPT ![j] = IF PacingEnabled THEN "pace" ELSE "get"]
    /\ sent' = [sent EXCEPT ![j] = @ + 1]

\* Mutant of Iterate: the pacing delay is waited before the first attempt only.
IterateFirstPaced(j, k, errs) ==
    /\ attempt' = [attempt EXCEPT ![j] = k]
    /\ errors' = [errors EXCEPT ![j] = errs]
    /\ IF PacingEnabled /\ k = 0
       THEN /\ pc' = [pc EXCEPT ![j] = "pace"]
            /\ sent' = sent
       ELSE /\ pc' = [pc EXCEPT ![j] = "get"]
            /\ sent' = [sent EXCEPT ![j] = @ + 1]

\* Loop iteration k starts: the pacing delay, when there is one, then the
\* request.
Iterate(j, k, errs) ==
    /\ attempt' = [attempt EXCEPT ![j] = k]
    /\ errors' = [errors EXCEPT ![j] = errs]
    /\ IF PacingEnabled
       THEN /\ pc' = [pc EXCEPT ![j] = "pace"]
            /\ sent' = sent
       ELSE /\ pc' = [pc EXCEPT ![j] = "get"]
            /\ sent' = [sent EXCEPT ![j] = @ + 1]

\* Mutant of GiveUp: the increment of the failure counter is lost.
GiveUpLost(j, errs) ==
    /\ total_failed' = total_failed
    /\ nError' = [nError EXCEPT ![j] = @ + 1]
    /\ errors' = [errors EXCEPT ![j] = errs]
    /\ pc' = [pc EXCEPT ![j] = "hookE"]

\* After the loop: count the failure and invoke on_error with the errors.
GiveUp(j, errs) ==
    /\ total_failed' = total_failed + 1
    /\ nError' = [nError EXCEPT ![j] = @ + 1]
    /\ errors' = [errors EXCEPT ![j] = errs]
    /\ pc' = [pc EXCEPT ![j] = "hookE"]

\* `continue`, or falling off the end of the loop body.
Continue(j, errs) ==
    IF HasNextIteration(attempt[j])
    THEN /\ Iterate(j, attempt[j] + 1, errs)
         /\ UNCHANGED <<total_failed, nError>>
    ELSE /\ GiveUp(j, errs)
         /\ UNCHANGED <<attempt, sent>>

\* Mutant of Caught: the exception is swallowed without being recorded.
CaughtUnrecorded(j, e) ==
    IF RetriesLeft(attempt[j])
    THEN /\ errors' = errors
         /\ pc' = [pc EXCEPT ![j] = "short"]
         /\ UNCHANGED <<attempt, sent, total_failed, nError>>
    ELSE /\ GiveUp(j, errors[j])
         /\ UNCHANGED <<attempt, sent>>

\* `except Exception as e`
Caught(j, e) ==
    IF RetriesLeft(attempt[j])
    THEN /\ errors' = [errors EXCEPT ![j] = Append(@, e)]
         /\ pc' = [pc EXCEPT ![j] = "short"]
         /\ UNCHANGED <<attempt, sent, total_failed, nError>>
    ELSE /\ GiveUp(j, Append(errors[j], e))
         /\ UNCHANGED <<attempt, sent>>

\* The slot is held: mkdir of the parent directory, then the first iteration.
Enter(j, b) ==
    IF b = "raises"
    THEN /\ Finish(j, "raised")
         /\ UNCHANGED <<total_failed>>
    ELSE /\ Iterate(j, 0, <<>>)
         /\ UNCHANGED <<sem_value, waiters, total_failed, nSuccess, nError,
                        outcomes, completed, succeeded>>

\* The coroutine of job j starts (gather starts them in list order): it takes
\* a slot at once or queues for one.
Start(j) ==
    /\ call # "none"
    /\ j \in CurrentJobs
    /\ pc[j] = "new"
    /\ \A i \in 1..(j - 1) : pc[i] # "new"
    /\ IF Locked
       THEN /\ waiters' = Append(waiters, j)
            /\ pc' = [pc EXCEPT ![j] = "wait"]
            /\ UNCHANGED <<sem_value, attempt, errors, sent, outcomes, completed>>
       ELSE \E b \in Behaviours :
              IF b = "raises"
              THEN /\ pc' = [pc EXCEPT ![j] = "raised"]
                   /\ completed' = completed + 1
                   /\ UNCHANGED <<sem_value, waiters, attempt, errors, sent, outcomes>>
              ELSE /\ sem_value' = sem_value - 1
                   /\ Iterate(j, 0, <<>>)
                   /\ UNCHANGED <<waiters, outcomes, completed>>
    /\ UNCHANGED <<config, builder, setting, manager, stealth, total_downloaded, total_failed, call, ntasks, ret,
                   nSuccess, nError, succeeded, calls>>

\* A woken waiter runs on: it owns the slot it was handed.
Resume(j) ==
    /\ pc[j] = "woken"
    /\ \E b \in Behaviours : Enter(j, b)
    /\ UNCHANGED <<config, builder, setting, manager, stealth, total_downloaded, call, ntasks, ret, calls>>

\* The pacing delay is over: the request is sent.
PaceDone(j) ==
    /\ pc[j] = "pace"
    /\ pc' = [pc EXCEPT ![j] = "get"]
    /\ sent' = [sent EXCEPT ![j] = @ + 1]
    /\ UNCHANGED <<config, builder, setting, manager, stealth, sem_value, waiters, total_downloaded, total_failed,
                   call, ntasks, ret, attempt, errors, nSuccess, nError,
                   outcomes, completed, succeeded, calls>>

\* The attempt ends: the response's status, or an exception.
Response(j) ==
    /\ pc[j] = "get"
    /\ \E o \in Executor(j, attempt[j]) :
         /\ outcomes' = [outcomes EXCEPT ![j] = Append(@, o)]
         /\ CASE o = "ok" ->
                   /\ total_downloaded' = total_downloaded + 1
                   /\ nSuccess' = [nSuccess EXCEPT ![j] = @ + 1]
                   /\ pc' = [pc EXCEPT ![j] = "hookS"]
                   /\ UNCHANGED <<total_failed, nError, attempt, errors, sent>>
              [] o = "429" ->
                   /\ errors' = [errors EXCEPT ![j] = Append(@, o)]
                   /\ pc' = [pc EXCEPT ![j] = "long"]
                   /\ UNCHANGED <<total_downloaded, total_failed, nSuccess,
                                  nError, attempt, sent>>
              [] o = "403" ->
                   /\ errors' = [errors EXCEPT ![j] = Append(@, o)]
                   /\ pc' = [pc EXCEPT ![j] = "medium"]
                   /\ UNCHANGED <<total_downloaded, total_failed, nSuccess,
                                  nError, attempt, sent>>
              [] o = "other" ->
                   /\ Continue(j, errors[j])
                   /\ UNCHANGED <<total_downloaded, nSuccess>>
              [] o \in {"exc", "fatal"} ->
                   /\ Caught(j, o)
                   /\ UNCHANGED <<total_downloaded, nSuccess>>
    /\ UNCHANGED <<config, builder, setting, manager, stealth, sem_value, waiters, call, ntasks, ret, completed,
                   succeeded, calls>>

\* Mutant of BackoffDone: the slot is given up for the retry delay, and after
\* it the job queues again behind the jobs that wait.
BackoffDoneRequeues(j) ==
    /\ pc[j] \in {"long", "medium", "short"}
    /\ IF waiters = <<>>
       THEN /\ Continue(j, errors[j])
            /\ UNCHANGED waiters
       ELSE /\ pc' = [pc EXCEPT ![j] = "wait", ![Head(waiters)] = "woken"]
            /\ waiters' = Append(Tail(waiters), j)
            /\ UNCHANGED <<attempt, errors, sent, total_failed, nError>>
    /\ UNCHANGED <<config, builder, setting, manager, stealth, sem_value,
                   total_downloaded, call, ntasks, ret, nSuccess, outcomes,
                   completed, succeeded, calls>>

\* A retry delay (after 429, after 403, after an exception) is over.
BackoffDone(j) ==
    /\ pc[j] \in {"long", "medium", "short"}
    /\ Continue(j, errors[j])
    /\ UNCHANGED <<config, builder, setting, manager, stealth, sem_value, waiters, total_downloaded, call, ntasks,
                   ret, nSuccess, outcomes, completed, succeeded, calls>>

\* on_success is over: it returned, or it raised inside the try block.
OnSuccessDone(j) ==
    /\ pc[j] = "hookS"
    /\ \E b \in Behaviours :
         IF b = "returns"
         THEN /\ Finish(j, "true")
              /\ UNCHANGED <<total_failed>>
         ELSE /\ Caught(j, "hook")
              /\ UNCHANGED <<sem_value, waiters, nSuccess, outcomes, completed,
                             succeeded>>
    /\ UNCHANGED <<config, builder, setting, manager, stealth, total_downloaded, call, ntasks, ret, calls>>

\* on_error is over: it returned, or it raised out of download_task.
OnErrorDone(j) ==
    /\ pc[j] = "hookE"
    /\ \E b \in Behaviours :
         Finish(j, IF b = "returns" THEN "false" ELSE "raised")
    /\ UNCHANGED <<config, builder, setting, manager, stealth, total_downloaded, total_failed, call, ntasks, ret,
                   calls>>

\* ------------------------------------------------------------ the calls

FreshJobs ==
    /\ pc' = [j \in Jobs |-> "new"]
    /\ attempt' = [j \in Jobs |-> 0]
    /\ errors' = [j \in Jobs |-> <<>>]
    /\ sent' = [j \in Jobs |-> 0]
    /\ nSuccess' = [j \in Jobs |-> 0]
    /\ nError' = [j \in Jobs |-> 0]
    /\ outcomes' = [j \in Jobs |-> <<>>]

\* download_tasks(tasks) is called with n tasks.
CallDownloadTasks ==
    /\ call = "none"
    /\ Len(calls) < MaxCalls
    /\ \E n \in 0..NumTasks :
         /\ Submitted + n <= MaxJobs
         /\ ntasks' = n
         /\ calls' = Append(calls, <<"tasks", n>>)
    /\ call' = "tasks"
    /\ ret' = <<>>
    /\ FreshJobs
    /\ UNCHANGED <<config, builder, setting, manager, stealth, sem_value, waiters, total_downloaded, total_failed,
                   completed, succeeded>>

\* download_task(session, task) is called directly.
CallDownloadTask ==
    /\ call = "none"
    /\ Len(calls) < MaxCalls
    /\ Submitted + 1 <= MaxJobs
    /\ ntasks' = 1
    /\ calls' = Append(calls, <<"task", 1>>)
    /\ call' = "task"
    /\ ret' = <<>>
    /\ FreshJobs
    /\ UNCHANGED <<config, builder, setting, manager, stealth, sem_value, waiters, total_downloaded, total_failed,
                   completed, succeeded>>

\* gather is done: download_tasks counts the results, adds them to the
\* totals and returns the pair.
ReturnDownloadTasks ==
    /\ call = "tasks"
    /\ GatherDone
    /\ LET downloaded_count == DownloadedCount
           failed_count == FailedCount(ntasks, downloaded_count)
       IN  /\ total_downloaded' = total_downloaded + downloaded_count
           /\ total_failed' = total_failed + failed_count
           /\ ret' = <<downloaded_count, failed_count>>
    /\ call' = "none"
    /\ UNCHANGED <<config, builder, setting, manager, stealth, sem_value, waiters, ntasks, pc, attempt, errors,
                   history>>

\* The direct call is over: True, False, or the exception that escaped.
ReturnDownloadTask ==
    /\ call = "task"
    /\ pc[1] \in Terminal
    /\ ret' = << CASE pc[1] = "true" -> "True"
                   [] pc[1] = "false" -> "False"
                   [] OTHER -> "raised" >>
    /\ call' = "none"
    /\ UNCHANGED <<config, builder, setting, manager, stealth, sem_value, waiters, total_downloaded, total_failed,
                   ntasks, pc, attempt, errors, history>>

\* The task awaiting download_tasks is cancelled while gather is pending:
\* gather cancels every coroutine that is not done.  CancelledError is not an
\* Exception, so `except Exception` lets it through: the coroutine leaves the
\* loop and the semaphore block at once, a slot held is given back, a waiter
\* leaves the queue, and download_tasks ends with CancelledError before it
\* counts anything.
Cancel ==
    /\ call = "tasks"
    /\ ~GatherDone
    /\ pc' = [j \in Jobs |->
                IF j \in CurrentJobs /\ pc[j] \notin Terminal
                THEN "cancelled" ELSE pc[j]]
    /\ sem_value' = max_concurrent
    /\ waiters' = <<>>
    /\ call' = "none"
    /\ ret' = <<"cancelled">>
    /\ UNCHANGED <<config, builder, setting, manager, stealth, total_downloaded, total_failed, ntasks,
                   attempt, errors, history>>

\* set_timeout(t) is called: it assigns to `self.timeout`, a property that
\* has a getter only, so the assignment raises AttributeError and
\* self._timeout stays as it was.
SetTimeout ==
    /\ \E t \in Timeouts : set_timeout_call' = <<t, "AttributeError">>
    /\ timeout' = timeout
    /\ UNCHANGED <<config, engine, builder, manager, stealth>>

\* get_connector is called.
GetConnector ==
    /\ \E name \in Optional(LookupNames), url \in Optional(LookupUrls),
          raise_error \in BOOLEAN :
         got' = <<[name |-> name, url |-> url, raise_error |-> raise_error],
                  get_connector(connectors, name, url, raise_error)>>
    /\ connectors' = connectors
    /\ UNCHANGED <<config, engine, builder, setting, stealth>>

\* A call on the StealthBrowser is made and ends as `how`.
BrowserCall(method, how) ==
    /\ Len(bcalls) < MaxBrowserCalls
    /\ bcalls' = Append(bcalls, <<method, how>>)
    /\ UNCHANGED <<config, engine, builder, setting, manager>>

\* start(): playwright, browser, context and page are assigned in this order,
\* each after an awaited Playwright call; when the n+1st of these calls
\* raises (no browser installed, launch failure), the first n fields have
\* been assigned and start raises.
BrowserStart ==
    \E n \in 0..4 :
        /\ playwright' = IF n >= 1 THEN "set" ELSE playwright
        /\ browser' = IF n >= 2 THEN "set" ELSE browser
        /\ context' = IF n >= 3 THEN "set" ELSE context
        /\ page' = IF n >= 4 THEN "set" ELSE page
        /\ BrowserCall("start", IF n = 4 THEN "returned" ELSE "raised")

\* navigate(url): goto succeeds or fails.
BrowserNavigate ==
    /\ \E how \in IF page = "None" THEN {"BrowserNotStartedError"}
                   ELSE {"returned", "BrowserNavigationError"} :
         BrowserCall("navigate", how)
    /\ UNCHANGED <<playwright, browser, context, page>>

\* wait_for_cloudflare(timeout, raise_on_block): the challenge passes, or
\* times out, or a page call raises.
BrowserWaitForCloudflare ==
    /\ \E how \in IF page = "None" THEN {"BrowserNotStartedError"}
                   ELSE {"True", "False", "CloudflareBlockedError", "raised"} :
         BrowserCall("wait_for_cloudflare", how)
    /\ UNCHANGED <<playwright, browser, context, page>>

\* scroll_to_bottom(step, delay)
BrowserScrollToBottom ==
    /\ \E how \in IF page = "None" THEN {"BrowserNotStartedError"}
                   ELSE {"returned", "raised"} :
         BrowserCall("scroll_to_bottom", how)
    /\ UNCHANGED <<playwright, browser, context, page>>

\* Mutant of BrowserClose: the page is closed but self.page is kept.
BrowserCloseKeepsPage ==
    /\ playwright' = "None"
    /\ browser' = "None"
    /\ context' = "None"
    /\ page' = page
    /\ BrowserCall("close", "returned")

\* close(): what is set is closed (Playwright's close and stop calls return),
\* then the four fields are set to None.
BrowserClose ==
    /\ playwright' = "None"
    /\ browser' = "None"
    /\ context' = "None"
    /\ page' = "None"
    /\ BrowserCall("close", "returned")

\* _build_headers(task) is called.
BuildHeaders ==
    /\ \E H \in TaskHeaderMaps, r \in Referers :
         task' = [headers |-> H, referer |-> r]
    /\ built' = <<build_headers(default_headers, task')>>
    /\ UNCHANGED <<config, engine, default_headers, setting, manager, stealth>>

\* ------------------------------------------------------- specifications

InitEngine ==
    /\ sem_value = max_concurrent
    /\ waiters = <<>>
    /\ total_downloaded = 0
    /\ total_failed = 0
    /\ call = "none"
    /\ ntasks = 0
    /\ ret = <<>>
    /\ pc = [j \in Jobs |-> "new"]
    /\ attempt = [j \in Jobs |-> 0]
    /\ errors = [j \in Jobs |-> <<>>]
    /\ sent = [j \in Jobs |-> 0]
    /\ nSuccess = [j \in Jobs |-> 0]
    /\ nError = [j \in Jobs |-> 0]
    /\ outcomes = [j \in Jobs |-> <<>>]
    /\ completed = 0
    /\ succeeded = 0
    /\ calls = <<>>

\* set_timeout not called yet.
InitSetting ==
    /\ timeout = DefaultTimeout
    /\ set_timeout_call = <<>>

\* No ConnectorManager in play.
InitManager ==
    /\ connectors = <<>>
    /\ got = <<>>

\* StealthBrowser()
InitStealth ==
    /\ playwright = "None"
    /\ browser = "None"
    /\ context = "None"
    /\ page = "None"
    /\ bcalls = <<>>

\* No default headers, and _build_headers not called yet.
InitBuilder ==
    /\ default_headers = <<>>
    /\ task = [headers |-> <<>>, referer |-> <<>>]
    /\ built = <<>>

\* ImageDownloader(max_concurrent, delay_range, max_retries)
Init ==
    /\ max_concurrent \in 1..MaxConcurrent
    /\ max_retries \in 1..MaxRetries
    /\ delay_range \in DelayRanges
    /\ scripted = FALSE
    /\ InitEngine
    /\ InitBuilder
    /\ InitSetting
    /\ InitManager
    /\ InitStealth

\* ImageDownloader(max_concurrent=1, delay_range=..., max_retries=2)
InitPacing ==
    /\ max_concurrent = 1
    /\ max_retries = MaxRetries
    /\ delay_range \in AllDelayRanges
    /\ scripted = FALSE
    /\ InitEngine
    /\ InitBuilder
    /\ InitSetting
    /\ InitManager
    /\ InitStealth

\* ImageDownloader(default_headers=...), with the other parameters fixed
InitHeaders ==
    /\ max_concurrent = 1
    /\ max_retries = 1
    /\ delay_range = <<>>
    /\ scripted = FALSE
    /\ InitEngine
    /\ default_headers \in DefaultHeaderMaps
    /\ task = [headers |-> <<>>, referer |-> <<>>]
    /\ built = <<>>
    /\ InitSetting
    /\ InitManager
    /\ InitStealth

\* ImageDownloader(max_concurrent=1, delay_range=..., max_retries=1,
\* timeout=...)
InitTimeout ==
    /\ max_concurrent = 1
    /\ max_retries = 1
    /\ delay_range \in DelayRanges
    /\ scripted = FALSE
    /\ InitEngine
    /\ InitBuilder
    /\ timeout \in Timeouts
    /\ set_timeout_call = <<>>
    /\ InitManager
    /\ InitStealth

\* ConnectorManager(), beside an engine that stays idle
InitConnectors ==
    /\ max_concurrent = 1
    /\ max_retries = 1
    /\ delay_range = <<>>
    /\ scripted = FALSE
    /\ InitEngine
    /\ InitBuilder
    /\ InitSetting
    /\ connectors \in {LoadConnectors(cs) : cs \in ConnectorLists}
    /\ got = <<>>
    /\ InitStealth

\* StealthBrowser(), beside an engine that stays idle
InitBrowser ==
    /\ max_concurrent = 1
    /\ max_retries = 1
    /\ delay_range = <<>>
    /\ scripted = FALSE
    /\ InitEngine
    /\ InitBuilder
    /\ InitSetting
    /\ InitManager
    /\ InitStealth

\* ImageDownloader(max_concurrent=2, max_retries=3) with the scripted executor
InitScenario ==
    /\ max_concurrent = ScenarioEngine.max_concurrent
    /\ max_retries = ScenarioEngine.max_retries
    /\ delay_range \in DelayRanges
    /\ scripted = TRUE
    /\ InitEngine
    /\ InitBuilder
    /\ InitSetting
    /\ InitManager
    /\ InitStealth

Next ==
    \/ CallDownloadTasks
    \/ CallDownloadTask
    \/ \E j \in Jobs : Start(j)
    \/ \E j \in Jobs : Resume(j)
    \/ \E j \in Jobs : PaceDone(j)
    \/ \E j \in Jobs : Response(j)
    \/ \E j \in Jobs : BackoffDone(j)
    \/ \E j \in Jobs : OnSuccessDone(j)
    \/ \E j \in Jobs : OnErrorDone(j)
    \/ ReturnDownloadTasks
    \/ ReturnDownloadTask

Spec == Init /\ [][Next]_vars

SpecScenario == InitScenario /\ [][Next]_vars

SpecPacing == InitPacing /\ [][Next]_vars

\* A step of the coroutine of job j.
JobStep(j) ==
    \/ Start(j)
    \/ Resume(j)
    \/ PaceDone(j)
    \/ Response(j)
    \/ BackoffDone(j)
    \/ OnSuccessDone(j)
    \/ OnErrorDone(j)

\* The event loop runs every coroutine that is ready, and every request,
\* sleep and hook a coroutine awaits comes to an end; a call whose coroutines
\* are all done returns.
Fairness ==
    /\ \A j \in Jobs : WF_vars(JobStep(j))
    /\ WF_vars(ReturnDownloadTasks)
    /\ WF_vars(ReturnDownloadTask)

\* ImageDownloader(max_concurrent=1, delay_range=..., max_retries=...)
InitFair ==
    /\ max_concurrent = 1
    /\ max_retries \in 1..MaxRetries
    /\ delay_range \in DelayRanges
    /\ scripted = FALSE
    /\ InitEngine
    /\ InitBuilder
    /\ InitSetting
    /\ InitManager
    /\ InitStealth

SpecFair == InitFair /\ [][Next]_vars /\ Fairness

\* The engine's steps, and the cancellation of a batch.
NextCancel ==
    \/ Next
    \/ Cancel

SpecCancel == Init /\ [][NextCancel]_vars

\* The engine's steps, and set_timeout.
NextTimeout ==
    \/ Next
    \/ SetTimeout

SpecTimeout == InitTimeout /\ [][NextTimeout]_vars

NextHeaders == BuildHeaders

NextConnectors == GetConnector

NextBrowser ==
    \/ BrowserStart
    \/ BrowserNavigate
    \/ BrowserWaitForCloudflare
    \/ BrowserScrollToBottom
    \/ BrowserClose

SpecBrowser == InitBrowser /\ [][NextBrowser]_vars

SpecConnectors == InitConnectors /\ [][NextConnectors]_vars

SpecHeaders == InitHeaders /\ [][NextHeaders]_vars

TypeOK ==
    /\ sem_value \in 0..max_concurrent
    /\ \A j \in Jobs :
         pc[j] \in {"new", "wait", "cancelled"} \cup Inside \cup Terminal

\* ============================================================== claims

Range(q) == {q[i] : i \in DOMAIN q}

\* Positions in which a job paces, does network or file I/O, or backs off.
Working == {"pace", "get", "long", "medium", "short"}

AllOf(q, o) == q # <<>> /\ \A i \in DOMAIN q : q[i] = o

\* C1: with more jobs than slots, never more than max_concurrent jobs hold a
\* limiter slot (the slots taken from the semaphore are exactly the jobs
\* inside it), a job paces, does I/O or backs off only while it holds one,
\* and every started job without a slot is parked in the waiter queue.
C1_LimiterBound ==
    /\ sem_value >= 0
    /\ Cardinality(Holders) = max_concurrent - sem_value
    /\ Cardinality(Holders) <= max_concurrent
    /\ Cardinality({j \in Jobs : pc[j] \in Working}) <= max_concurrent - sem_value
    /\ \A j \in Jobs : pc[j] = "wait" <=> j \in Range(waiters)
    /\ \A j \in Jobs : j \in Range(waiters) => j \notin Holders
    /\ waiters # <<>> => sem_value = 0

\* Two jobs work in the two slots of a three-job batch while the third is parked.
C1_Witness ==
    /\ call = "tasks" /\ ntasks = 3 /\ max_concurrent = 2
    /\ Cardinality({j \in Jobs : pc[j] \in Working}) = 2
    /\ Len(waiters) = 1

\* C2: once no call is in progress, stats.downloaded + stats.failed is the
\* number of jobs that reached a terminal state: each added exactly 1.
C2_CountedOnce ==
    call = "none" => stats.downloaded + stats.failed = completed

\* C3: when the coroutine of a job ends, exactly one of its two hooks has
\* been invoked, and exactly once.
C3_ExactlyOneHook ==
    [][\A j \in Jobs :
          (pc[j] \notin Terminal /\ pc'[j] \in Terminal)
              => nSuccess[j] + nError[j] = 1]_vars

\* C4: Succeeded and Failed are absorbing: once a job is counted as
\* downloaded, or counted as failed, no further request is sent for it and
\* it is never counted the other way.
C4_Absorbing ==
    [][\A j \in Jobs :
          /\ nSuccess[j] > 0 => (sent'[j] <= sent[j] /\ nError'[j] = 0)
          /\ nError[j] > 0 => (sent'[j] <= sent[j] /\ nSuccess'[j] = 0)]_vars

\* C5: a job all of whose attempts end in an exception is retried until it
\* has made exactly max_retries attempts, then is counted failed, and the
\* error list handed to on_error has max_retries entries; it ends no other
\* way.
C5_TransientExhausts ==
    \A j \in Jobs :
        AllOf(outcomes[j], "exc") =>
            /\ Len(outcomes[j]) <= max_retries
            /\ nSuccess[j] = 0
            /\ IF Len(outcomes[j]) < max_retries
               THEN /\ pc[j] \in {"short", "pace", "get"}
                    /\ nError[j] = 0
               ELSE /\ pc[j] = "hookE"
                    /\ sent[j] = max_retries
                    /\ nError[j] = 1
                    /\ Len(errors[j]) = max_retries
                    /\ AllOf(errors[j], "exc")

\* A job on a retrying engine is handed to on_error after max_retries
\* attempts that all raised.
C5_Witness ==
    \E j \in Jobs :
        /\ max_retries = 2
        /\ pc[j] = "hookE"
        /\ outcomes[j] = <<"exc", "exc">>
        /\ errors[j] = <<"exc", "exc">>

\* C6: a job whose first attempt ends in a FatalError has made exactly one
\* attempt and is given up at once: no backoff, no second attempt.
C6_FatalGivesUp ==
    \A j \in Jobs :
        (outcomes[j] # <<>> /\ outcomes[j][1] = "fatal")
            => (sent[j] = 1 /\ pc[j] = "hookE")

\* C7: a job whose first attempt returns Success makes exactly 1 attempt, its
\* on_success is invoked exactly once and its on_error never.
C7_FirstSuccess ==
    \A j \in Jobs :
        (outcomes[j] # <<>> /\ outcomes[j][1] = "ok")
            => (sent[j] = 1 /\ nSuccess[j] = 1 /\ nError[j] = 0)

\* C8: the scripted batch (job 1: Success; job 2: RateLimited, Success;
\* job 3: FatalError) on the engine with max_concurrent=2, max_retries=3:
\* job 1 succeeds after 1 attempt, job 2 after 2 attempts with one
\* RateLimited error recorded, job 3 fails after 1 attempt with one FatalError
\* recorded, and download_tasks returns (2, 1).
C8_Scenario ==
    (scripted /\ calls = << <<"tasks", 3>> >>) =>
        /\ pc[1] \notin {"hookE", "false", "raised"}
        /\ pc[2] \notin {"hookE", "false", "raised"}
        /\ pc[3] \notin {"hookS", "true", "raised"}
        /\ sent[1] <= 1 /\ sent[2] <= 2 /\ sent[3] <= 1
        /\ pc[1] = "hookS" => (sent[1] = 1 /\ errors[1] = <<>>)
        /\ pc[2] = "hookS" => (sent[2] = 2 /\ errors[2] = <<"429">>)
        /\ pc[3] = "hookE" => (sent[3] = 1 /\ errors[3] = <<"fatal">>)
        /\ call = "none" => ret = <<2, 1>>

\* C9: after two successive download_tasks batches of sizes A and B on a
\* fresh engine, every job having succeeded, stats.downloaded = A + B and
\* stats.failed = 0.
C9_Additive ==
    ( /\ call = "none"
      /\ Len(calls) = 2
      /\ calls[1][1] = "tasks" /\ calls[2][1] = "tasks"
      /\ succeeded = Submitted )
        => (stats.downloaded = calls[1][2] + calls[2][2] /\ stats.failed = 0)

\* C10: download_tasks([]) changes neither counter, takes no slot and
\* invokes no hook, from the call to the return, and returns (0, 0).
C10_EmptyBatch ==
    [][ /\ (call = "none" /\ call' = "tasks" /\ ntasks' = 0) =>
              /\ stats' = stats
              /\ sem_value' = sem_value /\ waiters' = waiters
              /\ \A j \in Jobs : nSuccess'[j] = 0 /\ nError'[j] = 0
        /\ (call = "tasks" /\ ntasks = 0) =>
              /\ call' = "none"
              /\ ret' = <<0, 0>>
              /\ stats' = stats
              /\ sem_value' = sem_value /\ waiters' = waiters
              /\ pc' = pc
              /\ nSuccess' = nSuccess /\ nError' = nError ]_vars

\* An empty batch has returned on an engine whose counters were not zero.
C10_Witness ==
    /\ call = "none"
    /\ Len(calls) = 2
    /\ calls[2] = <<"tasks", 0>>
    /\ ret = <<0, 0>>
    /\ stats.downloaded > 0
    /\ stats.failed > 0

\* The last call made.
LastCall == calls[Len(calls)]

\* C11: when download_tasks has returned, every job of its batch is in a
\* terminal state (returned True, returned False or raised): none is pending,
\* waiting for a slot, sleeping or attempting.
C11_ReturnsAfterAll ==
    (call = "none" /\ calls # <<>> /\ LastCall[1] = "tasks") =>
        /\ Len(ret) = 2
        /\ \A j \in CurrentJobs : pc[j] \in Terminal

\* A batch of two has returned although one job raised and the other failed.
C11_Witness ==
    /\ call = "none" /\ calls # <<>> /\ LastCall = <<"tasks", 2>>
    /\ Len(ret) = 2
    /\ \E i, j \in CurrentJobs : pc[i] = "raised" /\ pc[j] = "false"

\* C16: in every reachable state the requests a job has sent and the loop
\* iterations it has begun are at most max_retries, whatever the executor
\* answers and whatever the job's hooks do.
C16_AttemptsBounded ==
    \A j \in Jobs : sent[j] <= max_retries /\ attempt[j] < max_retries

\* A job has sent its last allowed request after an earlier one failed.
C16_Witness ==
    \E j \in Jobs :
        /\ max_retries = 2 /\ sent[j] = max_retries /\ pc[j] = "get"
        /\ Len(outcomes[j]) = 1

\* C17: neither counter of stats ever decreases from one state to the next.
C17_Monotone ==
    [][/\ stats'.downloaded >= stats.downloaded
       /\ stats'.failed >= stats.failed]_vars

\* Both counters have grown, by single jobs and by the totals of two batches.
C17_Witness ==
    /\ Len(calls) = 2 /\ calls[1][1] = "tasks" /\ calls[2][1] = "tasks"
    /\ call = "none"
    /\ stats.downloaded >= 2 /\ stats.failed >= 2

\* C18: the pair (s, f) download_tasks returns for a batch of N jobs has
\* s + f = N, s the number of jobs that returned True and f the number of jobs
\* that did not; no job of the batch is left out of the pair.
C18_PairCoversBatch ==
    (call = "none" /\ calls # <<>> /\ LastCall[1] = "tasks") =>
        /\ ret[1] + ret[2] = LastCall[2]
        /\ ret[1] = Cardinality({j \in 1..LastCall[2] : pc[j] = "true"})
        /\ ret[2] = Cardinality({j \in 1..LastCall[2] :
                                    pc[j] \in {"false", "raised"}})

\* A batch of three returned (1, 2): one job succeeded, one returned False and
\* one raised.
C18_Witness ==
    /\ call = "none" /\ calls # <<>> /\ LastCall = <<"tasks", 3>>
    /\ ret = <<1, 2>>
    /\ \E i, j, k \in 1..3 : pc[i] = "true" /\ pc[j] = "false" /\ pc[k] = "raised"

\* What the coroutine of job j holds, and the history kept of it.
Local(j) ==
    <<pc[j], attempt[j], errors[j], sent[j], nSuccess[j], nError[j], outcomes[j]>>

\* Job j is handed a slot, and nothing else happens to it.
WokenOnly(j) ==
    /\ pc[j] = "wait" /\ pc'[j] = "woken"
    /\ <<attempt[j], errors[j], sent[j], nSuccess[j], nError[j], outcomes[j]>>' =
       <<attempt[j], errors[j], sent[j], nSuccess[j], nError[j], outcomes[j]>>

\* C12: within a call, a step of one job leaves every other job as it was,
\* except that it may hand its slot to the first waiter; a waiting job is only
\* ever woken; and a job ends by its own course alone: it returns True from
\* its own on_success, returns False from its own on_error, and raises only
\* from its own mkdir or its own on_error.  So the failure of one job never
\* changes what another job does or how it ends.
C12_Isolation ==
    [][call' = call =>
        /\ Cardinality({j \in Jobs : Local(j)' # Local(j) /\ ~WokenOnly(j)}) <= 1
        /\ Cardinality({j \in Jobs : Local(j)' # Local(j)}) <= 2
        /\ \A j \in Jobs :
            /\ (pc[j] = "wait" /\ Local(j)' # Local(j)) => WokenOnly(j)
            /\ (pc[j] \notin Terminal /\ pc'[j] = "true") => pc[j] = "hookS"
            /\ (pc[j] \notin Terminal /\ pc'[j] = "false") => pc[j] = "hookE"
            /\ (pc[j] \notin Terminal /\ pc'[j] = "raised") =>
                   pc[j] \in {"new", "woken", "hookE"}]_vars

\* A later job of the batch is completing its download after an earlier job
\* failed and another raised.
C12_Witness ==
    /\ call = "tasks" /\ ntasks = 3
    /\ \E i, j, k \in CurrentJobs :
         /\ i < k /\ j < k
         /\ pc[i] = "false" /\ pc[j] = "raised" /\ pc[k] = "hookS"

\* C13: the coroutine of a job raises only when the job's own on_error hook
\* raised; whenever it ends otherwise than by returning True, the job has been
\* counted as failed and its on_error has been invoked, the failure of mkdir
\* included.
C13_NeverRaises ==
    [][\A j \in Jobs :
         (pc[j] \notin Terminal /\ pc'[j] \in {"false", "raised"}) =>
             (pc[j] = "hookE" /\ nError[j] = 1)]_vars

\* An attempt that did not end in status 200.
IsFailedAttempt(o) == o # "ok"

\* An error the attempts recorded, not one an on_success hook raised.
IsAttemptError(e) == e # "hook"

\* C14: when on_error is invoked, the errors it is handed, those the job's own
\* hook raised set aside, are the job's failed attempts one for one and in
\* order, whatever their kind.
C14_OneErrorPerAttempt ==
    \A j \in Jobs :
        pc[j] = "hookE" =>
            SelectSeq(errors[j], IsAttemptError) =
            SelectSeq(outcomes[j], IsFailedAttempt)

\* C15: when an attempt ends in a status other than 200, 429 and 403, an error
\* is recorded for it and the next attempt, if one is left, is made only after
\* the short retry delay.
C15_OtherStatusTransient ==
    [][\A j \in Jobs :
         (/\ Len(outcomes'[j]) = Len(outcomes[j]) + 1
          /\ outcomes'[j][Len(outcomes'[j])] = "other") =>
             /\ Len(errors'[j]) = Len(errors[j]) + 1
             /\ pc'[j] \in {"short", "hookE"}]_vars

\* C19: after a download_tasks call was cancelled, every job of the batch
\* whose attempt was in flight (request sent, no outcome yet) has been
\* reported as failed: its on_error was invoked once.
C19_CancelReportsInFlight ==
    ret = <<"cancelled">> =>
        \A j \in CurrentJobs :
            (pc[j] = "cancelled" /\ sent[j] > Len(outcomes[j])) => nError[j] = 1

\* The host and port of a URL written from parts c.
HostOf(c) == c.host \o (IF c.port = <<>> THEN <<>> ELSE <<":">> \o c.port)

\* C20: the headers _build_headers returns are the default headers overridden
\* by the task's headers, and, exactly when task.referer is not empty,
\* overridden again by Referer = task.referer and Origin = scheme://host of
\* the referer; with an empty referer no Referer or Origin is added.
C20_BuildHeaders ==
    built # <<>> =>
        LET h == built[1]
            synth == IF task.referer # <<>> THEN {"Referer", "Origin"} ELSE {}
        IN  /\ DOMAIN h = DOMAIN default_headers \cup DOMAIN task.headers \cup synth
            /\ \A k \in DOMAIN h \ synth :
                 h[k] = IF k \in DOMAIN task.headers
                        THEN task.headers[k] ELSE default_headers[k]
            /\ task.referer # <<>> =>
                 /\ h["Referer"] = task.referer
                 /\ \A c \in RefParts :
                      task.referer = FormatUrl(c) =>
                          h["Origin"] = c.scheme \o <<":", "/", "/">> \o HostOf(c)

\* The last element of a non-empty sequence.
Last(q) == q[Len(q)]

\* C21: when on_error is invoked, the attempts field of the TaskDownloadError
\* it is handed equals the number of requests the job has sent.
C21_AttemptsField ==
    \A j \in Jobs : pc[j] = "hookE" => Attempts(errors[j]) = sent[j]

\* The job's attempt with index max_retries - 1 has ended, and not in success.
FinalAttemptFailed(j) ==
    /\ Len(outcomes[j]) >= max_retries
    /\ Last(outcomes[j]) # "ok"

\* C25: once the attempt with index max_retries - 1 has failed, whatever its
\* kind, the job has sent max_retries requests and sends no other: it is
\* backing off after a final 429 or 403, or is at its on_error.
C25_FinalAttemptGivesUp ==
    \A j \in Jobs :
        FinalAttemptFailed(j) =>
            /\ sent[j] = max_retries
            /\ pc[j] \in {"long", "medium", "hookE"}
            /\ pc[j] = "hookE" => nError[j] = 1

\* A job is at its on_error after its second and last attempt ended in a
\* status other than 200, 429 and 403, following a first attempt that got 429.
C25_Witness ==
    \E j \in Jobs :
        /\ max_retries = 2
        /\ outcomes[j] = <<"429", "other">>
        /\ pc[j] = "hookE"

\* C26: a job whose final allowed attempt has failed waits no retry delay:
\* it is never in the long, medium or short delay.
C26_NoDelayBeforeGiveUp ==
    \A j \in Jobs :
        FinalAttemptFailed(j) => pc[j] \notin {"long", "medium", "short"}

\* C27: when pacing is enabled, a request is only ever sent at the end of a
\* pacing delay of its job, for the first attempt and for each retry.
C27_PacedBeforeEveryAttempt ==
    [][(Len(delay_range) > 0 /\ delay_range[2] > 0) =>
          \A j \in Jobs : sent'[j] = sent[j] + 1 => pc[j] = "pace"]_vars

\* With pacing enabled, a job is in the pacing delay of its second attempt.
C27_Witness ==
    \E j \in Jobs :
        /\ delay_range = <<1, 3>>
        /\ pc[j] = "pace" /\ attempt[j] = 1 /\ sent[j] = 1

\* C28: a job is never in the pacing delay when its last attempt ended in
\* status 429: the long delay is all that precedes the retry.
C28_LongDelayOnly ==
    \A j \in Jobs :
        (pc[j] = "pace" /\ outcomes[j] # <<>>) => Last(outcomes[j]) # "429"

\* The retry delay of an outcome's kind.
DelayOf(o) ==
    CASE o = "429" -> "long"
      [] o = "403" -> "medium"
      [] OTHER -> "short"

\* C29: every retry (a step to the next loop iteration) is made from the retry
\* delay of the kind of the attempt that just failed.
C29_OwnDelayBeforeRetry ==
    [][\A j \in Jobs :
         attempt'[j] = attempt[j] + 1 =>
             /\ outcomes[j] # <<>>
             /\ pc[j] = DelayOf(Last(outcomes[j]))]_vars

\* C30: with delay_range None, or a range whose max is not positive, no job
\* is ever in a pacing delay: each request is sent as its iteration starts.
C30_NoPacingWhenDisabled ==
    (IF Len(delay_range) = 0 THEN TRUE ELSE delay_range[2] <= 0) =>
        \A j \in Jobs : pc[j] # "pace"

\* With delay_range (0, 0) a job has sent the request of its retry.
C30_Witness ==
    /\ delay_range = <<0, 0>>
    /\ \E j \in Jobs : pc[j] = "get" /\ sent[j] = 2 /\ attempt[j] = 1

\* C22: after set_timeout(t) the call has returned without raising and the
\* engine's timeout, which every later request is given, is t.
C22_SetTimeout ==
    set_timeout_call # <<>> =>
        /\ set_timeout_call[2] = "returned"
        /\ timeout = set_timeout_call[1]

\* Two names are equal when case is ignored.
SameName(a, b) ==
    /\ Len(a) = Len(b)
    /\ \A i \in 1..Len(a) :
         \/ a[i] = b[i]
         \/ {a[i], b[i]} \in {{"a", "A"}, {"b", "B"}}

\* The connectors the manager holds.
Registered == {connectors[i][2] : i \in 1..Len(connectors)}

\* C23: get_connector raises ValueError when both name and url are given or
\* neither; given only a name it returns a held connector of that name, case
\* ignored, or None when there is none; given only a url it returns a held
\* connector whose can_handle(url) is true, and when there is none it raises
\* ConnectorNotFoundError if raise_error is true and returns None otherwise.
C23_GetConnector ==
    got # <<>> =>
        LET a == got[1]
            r == got[2]
        IN  IF (a.name = <<>>) = (a.url = <<>>)
            THEN r.kind = "raise" /\ r.exc = "ValueError"
            ELSE IF a.name # <<>>
            THEN /\ r.kind = "return"
                 /\ IF \E c \in Registered : SameName(c.name, a.name[1])
                    THEN /\ r.value # <<>>
                         /\ r.value[1] \in Registered
                         /\ SameName(r.value[1].name, a.name[1])
                    ELSE r.value = <<>>
            ELSE IF \E c \in Registered : can_handle(c, a.url[1])
            THEN /\ r.kind = "return"
                 /\ r.value # <<>>
                 /\ r.value[1] \in Registered
                 /\ can_handle(r.value[1], a.url[1])
            ELSE IF a.raise_error
            THEN r.kind = "raise" /\ r.exc = "ConnectorNotFoundError"
            ELSE r.kind = "return" /\ r.value = <<>>

\* The connector named "a" was returned for the name "A".
C23_Witness ==
    /\ got # <<>>
    /\ got[1].name = << <<"A">> >> /\ got[1].url = <<>>
    /\ got[2].kind = "return" /\ got[2].value # <<>>
    /\ got[2].value[1].name = <<"a">>

\* After the first k calls no page is open: no start has returned since the
\* last close, or since the construction when there was no close.
NoPageOpenAfter(k) ==
    \A i \in 1..k :
        bcalls[i] = <<"start", "returned">> =>
            \E c \in (i + 1)..k : bcalls[c][1] = "close"

InLoop == {"pace", "get", "long", "medium", "short", "hookS", "hookE"}

\* C31: a job that has not yet got its slot has made no attempt; a job that
\* has made an attempt and is not over is in its loop, holding its slot; and
\* the slots taken from the semaphore are exactly those of the jobs in their
\* loops and of the jobs just handed one.  So the slot taken before the first
\* attempt is kept through every attempt and delay and is never taken twice.
C31_SlotHeldThroughout ==
    /\ \A j \in Jobs :
         /\ pc[j] \in {"new", "wait", "woken"} =>
                (sent[j] = 0 /\ outcomes[j] = <<>> /\ errors[j] = <<>>)
         /\ (sent[j] > 0 \/ outcomes[j] # <<>>) => pc[j] \in InLoop
    /\ Cardinality({j \in Jobs : pc[j] \in InLoop \cup {"woken"}}) =
           max_concurrent - sem_value

\* With one slot, a job sits in the long delay after a 429 while the next job
\* waits for the slot.
C31_Witness ==
    /\ max_concurrent = 1 /\ sem_value = 0
    /\ \E i, k \in Jobs :
         /\ pc[i] = "long" /\ outcomes[i] = <<"429">>
         /\ pc[k] = "wait"

\* C32: a job has at most one attempt in flight (a request sent and not yet
\* answered), and it has one exactly while it awaits the response; the
\* iteration index is the number of attempts that are over, or one less.
C32_SequentialAttempts ==
    \A j \in Jobs :
        /\ sent[j] - Len(outcomes[j]) \in {0, 1}
        /\ sent[j] - Len(outcomes[j]) = 1 <=> pc[j] = "get"
        /\ pc[j] \in InLoop => attempt[j] \in {Len(outcomes[j]), Len(outcomes[j]) - 1}

\* Two jobs each have their second attempt in flight at the same time.
C32_Witness ==
    \E i, k \in Jobs :
        /\ i # k
        /\ pc[i] = "get" /\ sent[i] = 2 /\ Len(outcomes[i]) = 1
        /\ pc[k] = "get" /\ sent[k] = 2 /\ Len(outcomes[k]) = 1

\* The jobs for which P(j) holds, counted.
Count(P(_)) == Cardinality({j \in Jobs : P(j)})

\* C33: in every step each counter grows by exactly the increments of that
\* step: one for each download completed, one for each job given up, and the
\* counts of the batch when download_tasks returns.  None is lost.
C33_NoLostIncrement ==
    [][LET Downloaded(j) == nSuccess'[j] = nSuccess[j] + 1
           GivenUp(j) == nError'[j] = nError[j] + 1
           returns == call = "tasks" /\ call' = "none" /\ Len(ret') = 2
       IN  /\ stats'.downloaded - stats.downloaded =
                 Count(Downloaded) + (IF returns THEN ret'[1] ELSE 0)
           /\ stats'.failed - stats.failed =
                 Count(GivenUp) + (IF returns THEN ret'[2] ELSE 0)]_vars

\* Both counters have been incremented while two other jobs of the batch are
\* at a request and in a delay.
C33_Witness ==
    /\ call = "tasks" /\ ntasks = 3
    /\ stats.downloaded >= 1 /\ stats.failed >= 1
    /\ \E i, k \in CurrentJobs : pc[i] = "get" /\ pc[k] \in {"long", "medium", "short"}

\* C34: every job that waits for a slot is eventually handed one, and the
\* job handed a slot is the one that has waited longest: the jobs of a batch
\* queue in list order, so it is the waiting job of least index.
C34_StarvationFree ==
    /\ \A j \in Jobs : (pc[j] = "wait") ~> (pc[j] = "woken")
    /\ [][\A j \in Jobs :
            (pc[j] = "wait" /\ pc'[j] = "woken") =>
                \A i \in Jobs : pc[i] = "wait" => j <= i]_vars

\* With one slot, the second job of three has been handed the slot of the
\* first while the third still waits.
C34_Witness ==
    /\ max_concurrent = 1 /\ ntasks = 3
    /\ pc[1] \in Terminal /\ pc[2] = "woken" /\ pc[3] = "wait"

\* Every call in progress eventually returns, and by then each of its
\* coroutines has returned True, returned False or raised.
EveryCallReturns ==
    (call # "none") ~>
        (call = "none" /\ \A j \in CurrentJobs : pc[j] \in Terminal)

\* C35: every job of a call in progress eventually reaches Succeeded (its
\* coroutine returns True) or Failed (it is counted as failed and its
\* on_error hook is invoked, after which its coroutine returns False unless
\* the hook raises), and the call eventually returns.
C35_ReachesSucceededOrFailed ==
    /\ \A j \in Jobs :
           (call # "none" /\ j \in CurrentJobs /\ pc[j] = "new") ~>
               (pc[j] \in {"true", "false", "hookE"})
    /\ (call # "none") ~> (call = "none")

\* C36: an attempt that ends in an exception, the failure to write the body
\* after status 200 included, has its error recorded, counts no download and
\* invokes no on_success; the job waits the short delay and then starts its
\* next attempt when attempts remain, and gives up otherwise.
C36_WriteFailureIsTransient ==
    [][\A j \in Jobs :
         /\ outcomes'[j] = Append(outcomes[j], "exc") =>
                /\ errors'[j] = Append(errors[j], "exc")
                /\ total_downloaded' = total_downloaded
                /\ nSuccess'[j] = nSuccess[j]
                /\ nSuccess[j] = Cardinality({n \in DOMAIN outcomes[j] :
                                                  outcomes[j][n] = "ok"})
                /\ pc'[j] = IF attempt[j] < max_retries - 1
                            THEN "short" ELSE "hookE"
         /\ (pc[j] = "short" /\ pc'[j] # "short") =>
                /\ attempt'[j] = attempt[j] + 1
                /\ pc'[j] \in {"pace", "get"}
                /\ errors'[j] = errors[j]]_vars

\* The first attempt of a job raised, and after the short delay its second
\* request is out, one error on record and nothing counted as downloaded.
C36_Witness ==
    \E j \in Jobs :
        /\ pc[j] = "get" /\ attempt[j] = 1 /\ sent[j] = 2
        /\ outcomes[j] = <<"exc">> /\ errors[j] = <<"exc">>
        /\ nSuccess[j] = 0 /\ total_downloaded = 0

\* The slot of the semaphore is released in this step.
Released ==
    IF waiters = <<>>
    THEN sem_value' = sem_value + 1 /\ waiters' = waiters
    ELSE /\ sem_value' = sem_value
         /\ waiters' = Tail(waiters)
         /\ pc'[Head(waiters)] = "woken"

\* C37: the counter of a job is incremented in the step that invokes its
\* hook, with the slot still held; the slot is released in the step that ends
\* the coroutine, the counters untouched; and a waiting job is woken only in
\* a step in which a coroutine ends, so never while a hook is running on the
\* slot it gets.
C37_CountHookRelease ==
    [][/\ \A j \in Jobs :
            /\ (pc[j] # "hookS" /\ pc'[j] = "hookS") =>
                   /\ total_downloaded' = total_downloaded + 1
                   /\ sem_value' = sem_value /\ waiters' = waiters
            /\ (pc[j] # "hookE" /\ pc'[j] = "hookE") =>
                   /\ total_failed' = total_failed + 1
                   /\ sem_value' = sem_value /\ waiters' = waiters
            /\ (pc[j] \in {"hookS", "hookE"} /\ pc'[j] \in Terminal) =>
                   /\ Released
                   /\ total_downloaded' = total_downloaded
                   /\ total_failed' = total_failed
            /\ (pc[j] \in InLoop /\ pc'[j] \in Terminal) =>
                   pc[j] \in {"hookS", "hookE"}
       /\ (\E i \in Jobs : pc[i] = "wait" /\ pc'[i] = "woken") =>
              \E j \in Jobs : pc[j] \in {"hookS", "hookE", "woken"}
                                  /\ pc'[j] \in Terminal]_vars

\* With one slot, a job has been counted as failed and its on_error is
\* running while another job waits for the slot.
C37_Witness ==
    /\ max_concurrent = 1 /\ sem_value = 0
    /\ \E j, i \in Jobs :
         /\ pc[j] = "hookE" /\ nError[j] = 1 /\ total_failed >= 1
         /\ pc[i] = "wait" /\ Head(waiters) = i

\* C38: whenever no call is in progress no coroutine holds a slot or waits
\* for one, and the semaphore has its full capacity: every coroutine that
\* ended, by returning, by raising or by cancellation, gave its slot back.
C38_AllSlotsReleased ==
    call = "none" =>
        /\ sem_value = max_concurrent
        /\ waiters = <<>>
        /\ \A j \in Jobs : pc[j] \notin InLoop \cup {"wait", "woken"}

\* A batch was cancelled while a job had a request out, and the semaphore is
\* back at its capacity.
C38_Witness ==
    /\ call = "none" /\ ret = <<"cancelled">>
    /\ sem_value = max_concurrent /\ max_concurrent = 2
    /\ \E j \in Jobs : pc[j] = "cancelled" /\ sent[j] > 0

====
